---- MODULE Spec2Model ----
(***************************************************************************)
(* A model of restrum, a small Go HTTP framework: the pattern parser, the  *)
(* per-method routing trie, the route registry, the group table with its   *)
(* middleware assignment, and the request context with its continuation    *)
(* (Context.Next).                                                         *)
(*                                                                         *)
(* Go strings are modelled as sequences of one-character strings, so that  *)
(* parsing, joining, prefix tests and key concatenation are computed       *)
(* character by character as the code computes them.  Go maps are sets of  *)
(* <<key, value>> pairs with at most one pair per key.  Pointers to nodes  *)
(* are indices into the sequence of allocated nodes; 0 is the nil pointer. *)
(***************************************************************************)
EXTENDS Integers, Sequences, FiniteSets, TLC

VARIABLES
    nodes,      \* every *node allocated so far (node.go, embedded in README.md)
    root,       \* router.root: method -> *node
    handlers,   \* router.handlers: method + "_" + pattern -> HandlerFunc
    regs,       \* the calls router.AddRoutes has received, in order
    groups,     \* Engine.groups: the RouterGroups in creation order
    ctx,        \* the Context of the request being served
    pc,         \* "setup", then per request "ready", "running", "done"/"panic"
    stack,      \* the HandlerFuncs now executing, outermost first
    invoked,    \* the HandlerFuncs invoked for this request, in order
    response,   \* what has been written to the ResponseWriter
    route,      \* what getRoute returned to router.handle for this request
    pin,        \* the strings handed to parsePattern, in order
    pout,       \* what parsePattern returned for each
    reqs        \* the requests being served concurrently, each with its own
                \* position and Context

vars == <<nodes, root, handlers, regs, groups, ctx, pc, stack, invoked,
          response, route, pin, pout, reqs>>

----------------------------------------------------------------------------
(* Bounds of the model.                                                    *)

MaxRoutes == 3
MaxNextCalls == 2
MaxGroups == 2
MaxUse == 2
MaxLen == 5
MaxChainRoutes == 2

----------------------------------------------------------------------------
(* Strings and maps.                                                       *)

\* s[from:to] of Go, 0-based and half-open.
Slice(s, from, to) == SubSeq(s, from + 1, to)

\* An assignment that leaves the value of a key already present.
MapPutKeepsFirst(m, k, v) ==
    IF \E p \in m : p[1] = k THEN m ELSE m \cup {<<k, v>>}

\* m[k] = v on a Go map.
MapPut(m, k, v) == {p \in m : p[1] # k} \cup {<<k, v>>}

\* _, ok := m[k]
MapHas(m, k) == \E p \in m : p[1] = k

\* m[k] for a key that is present.
MapGet(m, k) == (CHOOSE p \in m : p[1] = k)[2]

----------------------------------------------------------------------------
(* parsePattern (README.md, node.go part).                                 *)

\* parseLoop without the start != i test at a "/": empty segments are kept.
RECURSIVE parseLoopKeepsEmpty(_, _, _, _)
parseLoopKeepsEmpty(pattern, i, start, parts) ==
    IF i >= Len(pattern)
    THEN IF start < Len(pattern)
         THEN Append(parts, Slice(pattern, start, Len(pattern)))
         ELSE parts
    ELSE IF pattern[i + 1] = "/"
    THEN parseLoopKeepsEmpty(pattern, i + 1, i + 1,
                             Append(parts, Slice(pattern, start, i)))
    ELSE IF pattern[i + 1] = "*"
    THEN Append(IF start # i THEN Append(parts, Slice(pattern, start, i))
                              ELSE parts,
                Slice(pattern, i, Len(pattern)))
    ELSE parseLoopKeepsEmpty(pattern, i + 1, start, parts)

RECURSIVE parseLoop(_, _, _, _)
parseLoop(pattern, i, start, parts) ==
    IF i >= Len(pattern)
    THEN \* the loop ended without a wildcard: isWild is false
         IF start < Len(pattern)
         THEN Append(parts, Slice(pattern, start, Len(pattern)))
         ELSE parts
    ELSE IF pattern[i + 1] = "/"
    THEN parseLoop(pattern, i + 1, i + 1,
                   IF start # i THEN Append(parts, Slice(pattern, start, i))
                                ELSE parts)
    ELSE IF pattern[i + 1] = "*"
    THEN \* isWild = true; break: the trailing append is skipped
         Append(IF start # i THEN Append(parts, Slice(pattern, start, i))
                              ELSE parts,
                Slice(pattern, i, Len(pattern)))
    ELSE parseLoop(pattern, i + 1, start, parts)

parsePattern(pattern) == parseLoop(pattern, 0, 0, <<>>)

----------------------------------------------------------------------------
(* joinParts (route.go).                                                   *)

RECURSIVE joinLength(_)
joinLength(parts) ==
    IF parts = <<>> THEN 0 ELSE Len(Head(parts)) + 1 + joinLength(Tail(parts))

\* make([]byte, length-1) panics when length-1 is negative.
joinPanics(parts) == joinLength(parts) - 1 < 0

\* copy(joined[pos:], part): as many bytes as fit.
copyAt(joined, pos, part) ==
    [k \in 1..Len(joined) |->
        IF k > pos /\ k <= pos + Len(part) THEN part[k - pos] ELSE joined[k]]

\* joinLoop with the separator test off by one part: the "/" is written
\* over by the next part.
RECURSIVE joinLoopOverwritten(_, _, _, _)
joinLoopOverwritten(parts, pos, joined, length) ==
    IF parts = <<>> THEN joined
    ELSE LET copied == copyAt(joined, pos, Head(parts))
             pos1   == pos + Len(Head(parts))
         IN  IF pos1 < length - 1
             THEN joinLoopOverwritten(Tail(parts), pos1,
                                      [copied EXCEPT ![pos1 + 1] = "/"], length)
             ELSE joinLoopOverwritten(Tail(parts), pos1, copied, length)

RECURSIVE joinLoop(_, _, _, _)
joinLoop(parts, pos, joined, length) ==
    IF parts = <<>> THEN joined
    ELSE LET copied == copyAt(joined, pos, Head(parts))
             pos1   == pos + Len(Head(parts))
         IN  IF pos1 < length - 1
             THEN joinLoop(Tail(parts), pos1 + 1,
                           [copied EXCEPT ![pos1 + 1] = "/"], length)
             ELSE joinLoop(Tail(parts), pos1, copied, length)

\* Defined when joinPanics(parts) is false.  "0" stands for the zero byte.
joinParts(parts) ==
    LET length == joinLength(parts)
    IN  joinLoop(parts, 0, [k \in 1..(length - 1) |-> "0"], length)

----------------------------------------------------------------------------
(* The routing trie (README.md, node.go part).                             *)

\* The nil *node.
nil == 0

\* &node{part: part, isWild: part[0] == ':' || part[0] == '*'}
newNode(part) ==
    [pattern  |-> <<>>,
     part     |-> part,
     children |-> <<>>,
     isWild   |-> part[1] = ":" \/ part[1] = "*"]

\* &node{}
emptyNode == [pattern |-> <<>>, part |-> <<>>, children |-> <<>>, isWild |-> FALSE]

\* Whether matchChildren and search consider a child for a segment.
childMatches(child, part) == child.part = part \/ child.isWild

RECURSIVE matchFrom(_, _, _, _)
matchFrom(ns, n, part, k) ==
    IF k > Len(ns[n].children) THEN nil
    ELSE IF childMatches(ns[ns[n].children[k]], part) THEN ns[n].children[k]
    ELSE matchFrom(ns, n, part, k + 1)

\* node.matchChildren: the first child, in child-list order, that matches.
matchChildren(ns, n, part) == matchFrom(ns, n, part, 1)

\* node.insert, on the node store ns; the result is the store afterwards.
RECURSIVE insert(_, _, _, _, _)
insert(ns, n, pattern, parts, height) ==
    IF Len(parts) = height
    THEN [ns EXCEPT ![n].pattern = pattern]
    ELSE LET part  == parts[height + 1]
             child == matchChildren(ns, n, part)
         IN  IF child = nil
             THEN LET c == Len(ns) + 1
                  IN  insert(Append([ns EXCEPT ![n].children = Append(@, c)],
                                    newNode(part)),
                             c, pattern, parts, height + 1)
             ELSE insert(ns, child, pattern, parts, height + 1)

\* The condition under which node.search stops descending at node n.
searchStops(ns, n, parts, height) == Len(parts) = height \/ ns[n].isWild

\* node.search: the node found, or nil.
RECURSIVE search(_, _, _, _)
RECURSIVE searchFrom(_, _, _, _, _)
search(ns, n, parts, height) ==
    IF searchStops(ns, n, parts, height)
    THEN IF ns[n].pattern = <<>> THEN nil ELSE n
    ELSE searchFrom(ns, n, parts, height, 1)

searchFrom(ns, n, parts, height, k) ==
    IF k > Len(ns[n].children) THEN nil
    ELSE LET child == ns[n].children[k]
         IN  IF childMatches(ns[child], parts[height + 1])
             THEN LET result == search(ns, child, parts, height + 1)
                  IN  IF result # nil THEN result
                      ELSE searchFrom(ns, n, parts, height, k + 1)
             ELSE searchFrom(ns, n, parts, height, k + 1)

----------------------------------------------------------------------------
(* The route registry (route.go).                                          *)

\* key := method + "_" + pattern
routeKey(method, pattern) == method \o <<"_">> \o pattern

\* The parameter loop binding a named parameter to the segment after its
\* own.
RECURSIVE paramLoopNextPart(_, _, _, _)
paramLoopNextPart(parts, searchParts, i, params) ==
    IF i >= Len(parts) THEN [params |-> params, fault |-> FALSE]
    ELSE LET part == parts[i + 1]
         IN  IF part[1] = ":"
             THEN IF i + 1 >= Len(searchParts)
                  THEN [params |-> params, fault |-> TRUE]
                  ELSE paramLoopNextPart(parts, searchParts, i + 1,
                                 MapPut(params, Tail(part), searchParts[i + 2]))
             ELSE IF part[1] = "*"
             THEN IF i > Len(searchParts)
                     \/ joinPanics(Slice(searchParts, i, Len(searchParts)))
                  THEN [params |-> params, fault |-> TRUE]
                  ELSE [params |-> MapPut(params, Tail(part),
                                     joinParts(Slice(searchParts, i,
                                                     Len(searchParts)))),
                        fault  |-> FALSE]
             ELSE paramLoopNextPart(parts, searchParts, i + 1, params)

\* The parameter loop of getRoute over parts[i:], i 0-based.  An index or
\* a slice bound out of range, or joinParts of no part, is a panic.
RECURSIVE paramLoop(_, _, _, _)
paramLoop(parts, searchParts, i, params) ==
    IF i >= Len(parts) THEN [params |-> params, fault |-> FALSE]
    ELSE LET part == parts[i + 1]
         IN  IF part[1] = ":"
             THEN IF i >= Len(searchParts)
                  THEN [params |-> params, fault |-> TRUE]
                  ELSE paramLoop(parts, searchParts, i + 1,
                                 MapPut(params, Tail(part), searchParts[i + 1]))
             ELSE IF part[1] = "*"
             THEN IF i > Len(searchParts)
                     \/ joinPanics(Slice(searchParts, i, Len(searchParts)))
                  THEN [params |-> params, fault |-> TRUE]
                  ELSE [params |-> MapPut(params, Tail(part),
                                     joinParts(Slice(searchParts, i,
                                                     Len(searchParts)))),
                        fault  |-> FALSE]
             ELSE paramLoop(parts, searchParts, i + 1, params)

\* router.getRoute on a registry (ns, rt): the node (nil on a miss), the
\* parameters (isNil: the nil map of a miss), and whether it panicked.
getRoute(ns, rt, method, path) ==
    LET searchParts == parsePattern(path)
    IN  IF ~MapHas(rt, method)
        THEN [n |-> nil, params |-> {}, isNil |-> TRUE, fault |-> FALSE]
        ELSE LET n == search(ns, MapGet(rt, method), searchParts, 0)
             IN  IF n # nil
                 THEN LET r == paramLoop(parsePattern(ns[n].pattern),
                                         searchParts, 0, {})
                      IN  [n |-> n, params |-> r.params, isNil |-> FALSE,
                           fault |-> r.fault]
                 ELSE [n |-> nil, params |-> {}, isNil |-> TRUE,
                       fault |-> FALSE]

\* router.AddRoutes recording the handler only with the first route of a
\* method.
routerAddRoutesOnNewRoot(ns, rt, hs, method, pattern, handler) ==
    LET parts == parsePattern(pattern)
        key   == routeKey(method, pattern)
        ns1   == IF MapHas(rt, method) THEN ns ELSE Append(ns, emptyNode)
        rt1   == IF MapHas(rt, method) THEN rt
                 ELSE MapPut(rt, method, Len(ns) + 1)
    IN  [nodes    |-> insert(ns1, MapGet(rt1, method), pattern, parts, 0),
         root     |-> rt1,
         handlers |-> IF MapHas(rt, method) THEN hs
                      ELSE MapPut(hs, key, handler)]

\* router.AddRoutes on a registry: the registry afterwards.
routerAddRoutes(ns, rt, hs, method, pattern, handler) ==
    LET parts == parsePattern(pattern)
        key   == routeKey(method, pattern)
        ns1   == IF MapHas(rt, method) THEN ns ELSE Append(ns, emptyNode)
        rt1   == IF MapHas(rt, method) THEN rt
                 ELSE MapPut(rt, method, Len(ns) + 1)
    IN  [nodes    |-> insert(ns1, MapGet(rt1, method), pattern, parts, 0),
         root     |-> rt1,
         handlers |-> MapPut(hs, key, handler)]

----------------------------------------------------------------------------
(* The engine and its groups (restrum.go).                                 *)

\* HandlerFunc values: the handler of the i-th registration, a middleware
\* written by the application, or the closure CORSMiddleware returns.
routeHandler(i) == [kind |-> "route", id |-> i]
userMiddleware(j) == [kind |-> "mw", id |-> j]
CORSMiddleware == [kind |-> "cors", id |-> 0]

\* strings.HasPrefix(s, prefix)
HasPrefix(s, prefix) ==
    Len(s) >= Len(prefix) /\ SubSeq(s, 1, Len(prefix)) = prefix

\* assignFrom putting each matching group's middlewares in front.
RECURSIVE assignFromPrepending(_, _, _, _)
assignFromPrepending(gs, path, k, middlewares) ==
    IF k > Len(gs) THEN middlewares
    ELSE assignFromPrepending(gs, path, k + 1,
                              IF HasPrefix(path, gs[k].prefix)
                              THEN gs[k].middlewares \o middlewares
                              ELSE middlewares)

\* The loop of Engine.ServeHTTP over e.groups[k:], k 1-based.
RECURSIVE assignFrom(_, _, _, _)
assignFrom(gs, path, k, middlewares) ==
    IF k > Len(gs) THEN middlewares
    ELSE assignFrom(gs, path, k + 1,
                    IF HasPrefix(path, gs[k].prefix)
                    THEN middlewares \o gs[k].middlewares
                    ELSE middlewares)

assignMiddlewares(gs, path) == assignFrom(gs, path, 1, <<>>)

\* newContext with the cursor starting at the first middleware.
newContextAtFirst(method, path) ==
    [HTTPMethod |-> method,
     RoutePath  |-> path,
     Params     |-> {},
     current    |-> 0,
     middleware |-> <<>>]

\* newContext, for a request of the given method and URL path.
newContext(method, path) ==
    [HTTPMethod |-> method,
     RoutePath  |-> path,
     Params     |-> {},
     current    |-> -1,
     middleware |-> <<>>]

noResponse == [code |-> 0, body |-> ""]
noRoute == [n |-> nil, params |-> {}, isNil |-> TRUE, fault |-> FALSE]

\* A HandlerFunc that starts executing, and the record of its invocation.
frame(fn) == [fn |-> fn, calls |-> 0]
invocation(fn, at) == [fn |-> fn, at |-> at]

\* The goroutines in which net/http calls Engine.ServeHTTP concurrently.
Requests == {1, 2}

\* A goroutine that serves no request yet.
idleRequest ==
    [pc          |-> "idle",
     k           |-> 0,
     middlewares |-> <<>>,
     ctx         |-> newContext(<<>>, <<>>),
     route       |-> noRoute,
     invoked     |-> <<>>]

Init ==
    /\ nodes = <<>>
    /\ root = {}
    /\ handlers = {}
    /\ regs = <<>>
    /\ groups = <<[prefix |-> <<>>, middlewares |-> <<>>, parent |-> nil]>>
    /\ ctx = newContext(<<>>, <<>>)
    /\ pc = "setup"
    /\ stack = <<>>
    /\ invoked = <<>>
    /\ response = noResponse
    /\ route = noRoute
    /\ pin = <<>>
    /\ pout = <<>>
    /\ reqs = [r \in Requests |-> idleRequest]

\* RouterGroup.Group on group g.
Group(g, prefix) ==
    /\ pc = "setup"
    /\ Len(groups) < MaxGroups + 1
    /\ groups' = Append(groups, [prefix      |-> groups[g].prefix \o prefix,
                                 middlewares |-> <<>>,
                                 parent      |-> g])
    /\ UNCHANGED <<nodes, root, handlers, regs, ctx, pc, stack, invoked,
                   response, route, pin, pout, reqs>>

RECURSIVE totalMiddlewares(_)
totalMiddlewares(gs) ==
    IF gs = <<>> THEN 0
    ELSE Len(Head(gs).middlewares) + totalMiddlewares(Tail(gs))

\* RouterGroup.Use on group g.
Use(g, middlewares) ==
    /\ pc = "setup"
    /\ totalMiddlewares(groups) + Len(middlewares) <= MaxUse
    /\ groups' = [groups EXCEPT ![g].middlewares = @ \o middlewares]
    /\ UNCHANGED <<nodes, root, handlers, regs, ctx, pc, stack, invoked,
                   response, route, pin, pout, reqs>>

\* RouterGroup.AddRoutes on group g (GET, POST, PUT and DELETE call it with
\* their method; Engine.OPTION is router.AddRoutes with method OPTION and
\* no prefix, as on the root group).  Every registration passes a handler
\* of its own.
AddRoutes(g, method, comp) ==
    /\ pc = "setup"
    /\ Len(regs) < MaxRoutes
    /\ LET pattern == groups[g].prefix \o comp
           handler == routeHandler(Len(regs) + 1)
           r       == routerAddRoutes(nodes, root, handlers, method, pattern,
                                      handler)
       IN  /\ nodes' = r.nodes
           /\ root' = r.root
           /\ handlers' = r.handlers
           /\ regs' = Append(regs, [method  |-> method,
                                    pattern |-> pattern,
                                    handler |-> handler])
    /\ UNCHANGED <<groups, ctx, pc, stack, invoked, response, route, pin, pout, reqs>>

\* Engine.ServeHTTP up to the point where the route handler gets control:
\* the middleware assignment, newContext and router.handle.
ServeHTTP(method, path) ==
    /\ pc \in {"setup", "ready"}
    /\ LET middlewares == assignMiddlewares(groups, path)
           c   == [newContext(method, path) EXCEPT !.middleware = middlewares]
           r   == getRoute(nodes, root, c.HTTPMethod, c.RoutePath)
           key == routeKey(c.HTTPMethod, nodes[r.n].pattern)
       IN  /\ route' = r
           /\ IF r.fault
              THEN /\ ctx' = c
                   /\ pc' = "panic"
                   /\ stack' = <<>>
                   /\ invoked' = <<>>
                   /\ response' = noResponse
              ELSE IF r.n # nil
              THEN /\ ctx' = [c EXCEPT !.Params = r.params]
                   /\ response' = noResponse
                   /\ IF MapHas(handlers, key)
                      THEN /\ pc' = "running"
                           /\ stack' = <<frame(MapGet(handlers, key))>>
                           /\ invoked' =
                                <<invocation(MapGet(handlers, key), c.current)>>
                      ELSE \* a call of the nil HandlerFunc
                           /\ pc' = "panic"
                           /\ stack' = <<>>
                           /\ invoked' = <<>>
              ELSE /\ ctx' = c
                   /\ pc' = "done"
                   /\ stack' = <<>>
                   /\ invoked' = <<>>
                   /\ response' = [code |-> 404, body |-> "NOT FOUND"]
    /\ UNCHANGED <<nodes, root, handlers, regs, groups, pin, pout, reqs>>

\* Engine.ServeHTTP returns (or net/http recovers its panic): the Context of
\* the request is dropped, and the server is ready for the next request.
Finish ==
    /\ pc \in {"done", "panic"}
    /\ pc' = "ready"
    /\ ctx' = newContext(<<>>, <<>>)
    /\ stack' = <<>>
    /\ invoked' = <<>>
    /\ response' = noResponse
    /\ route' = noRoute
    /\ UNCHANGED <<nodes, root, handlers, regs, groups, pin, pout, reqs>>

top == stack[Len(stack)]

\* Whether the HandlerFunc on top of the stack may call ctx.Next() now.  The
\* CORS closure calls it once, and only for a method other than OPTIONS;
\* application code may call it any number of times.
mayCallNext ==
    IF top.fn.kind = "cors"
    THEN top.calls = 0 /\ ctx.HTTPMethod # <<"O", "P", "T", "I", "O", "N", "S">>
    ELSE top.calls < MaxNextCalls

\* Whether the HandlerFunc on top of the stack may return now.
mayReturn ==
    top.fn.kind = "cors" =>
        (top.calls = 1 \/ ctx.HTTPMethod = <<"O", "P", "T", "I", "O", "N", "S">>)

\* Next testing the bound before it moves the cursor: past the end of the
\* sequence the cursor stays.
NextTestsFirst ==
    /\ pc = "running"
    /\ mayCallNext
    /\ LET current == ctx.current + 1
           called  == [stack EXCEPT ![Len(stack)].calls = @ + 1]
       IN  IF current < Len(ctx.middleware)
           THEN /\ ctx' = [ctx EXCEPT !.current = current]
                /\ stack' = Append(called, frame(ctx.middleware[current + 1]))
                /\ invoked' = Append(invoked,
                                     invocation(ctx.middleware[current + 1],
                                                current))
           ELSE /\ ctx' = ctx
                /\ stack' = called
                /\ invoked' = invoked
    /\ UNCHANGED <<nodes, root, handlers, regs, groups, pc, response, route,
                   pin, pout, reqs>>

\* Context.Next, called by the HandlerFunc on top of the stack.
Next ==
    /\ pc = "running"
    /\ mayCallNext
    /\ LET current == ctx.current + 1
           called  == [stack EXCEPT ![Len(stack)].calls = @ + 1]
       IN  /\ ctx' = [ctx EXCEPT !.current = current]
           /\ IF current < Len(ctx.middleware)
              THEN /\ stack' = Append(called, frame(ctx.middleware[current + 1]))
                   /\ invoked' = Append(invoked,
                                        invocation(ctx.middleware[current + 1],
                                                   current))
              ELSE /\ stack' = called
                   /\ invoked' = invoked
    /\ UNCHANGED <<nodes, root, handlers, regs, groups, pc, response, route,
                   pin, pout, reqs>>

\* The HandlerFunc on top of the stack returns; the CORS closure has written
\* the status of a preflight request before it does.
Return ==
    /\ pc = "running"
    /\ mayReturn
    /\ stack' = SubSeq(stack, 1, Len(stack) - 1)
    /\ pc' = IF Len(stack) = 1 THEN "done" ELSE "running"
    /\ response' = IF top.fn.kind = "cors" /\ top.calls = 0
                   THEN [response EXCEPT !.code = 200]
                   ELSE response
    /\ UNCHANGED <<nodes, root, handlers, regs, groups, ctx, invoked, route,
                   pin, pout, reqs>>

----------------------------------------------------------------------------
(* The inputs the specifications draw from.                                *)

GET == <<"G", "E", "T">>
POST == <<"P", "O", "S", "T">>
OPTIONS == <<"O", "P", "T", "I", "O", "N", "S">>

\* Patterns over the segments a, b, c, the parameter :x and the wildcard *w:
\* a named parameter before a static segment (as /p/:lang/doc), a trailing
\* wildcard (as /static/*filepath), a trailing named parameter (as
\* /users/:id), a static sibling of it (as /users/admin), and a longer
\* static route (as /a/c/d).
RoutePatterns ==
    { <<"/", "a", "/", ":", "x", "/", "b">>,
      <<"/", "a", "/", "*", "w">>,
      <<"/", "a", "/", ":", "x">>,
      <<"/", "a", "/", "b">>,
      <<"/", "a", "/", "c", "/", "b">> }

RoutePaths ==
    { <<"/", "a", "/", "b">>,
      <<"/", "a", "/", "c">>,
      <<"/", "a", "/", "c", "/", "b">>,
      <<"/", "a", "/", "b", "/", "c">>,
      <<"/", "a", "/", "/", "c", "/", "b", "/">>,
      <<"/", "a", "/", "c", "*", "b">>,
      <<"/", "b">> }

RouteMethods == {GET, POST}

\* Routing: registrations through the root group, then requests whose
\* handlers return without calling Next.
RouteStep ==
    \/ \E method \in RouteMethods, comp \in RoutePatterns :
           AddRoutes(1, method, comp)
    \/ \E method \in RouteMethods, path \in RoutePaths :
           ServeHTTP(method, path)
    \/ Return
    \/ Finish

Spec == Init /\ [][RouteStep]_vars

\* Middleware assignment: groups /api and /v1 under any group made so far,
\* middlewares on any of them, one route /users under one of them, and
\* requests whose handlers return without calling Next.
GroupPrefixes == { <<"/", "a", "p", "i">>, <<"/", "v", "1">> }

UseArgs ==
    { <<CORSMiddleware>>,
      <<userMiddleware(1)>>,
      <<userMiddleware(1), userMiddleware(2)>> }

GroupComps == { <<"/", "u", "s", "e", "r", "s">> }

GroupPaths ==
    { <<"/", "a", "p", "i", "/", "v", "1", "/", "u", "s", "e", "r", "s">>,
      <<"/", "a", "p", "i", "/", "u", "s", "e", "r", "s">>,
      <<"/", "a", "p", "i", "x">>,
      <<"/", "/", "a", "p", "i", "/", "u", "s", "e", "r", "s">> }

GroupStep ==
    \/ \E g \in 1..Len(groups), prefix \in GroupPrefixes : Group(g, prefix)
    \/ \E g \in 1..Len(groups), middlewares \in UseArgs : Use(g, middlewares)
    \/ \E g \in 1..Len(groups), comp \in GroupComps :
           regs = <<>> /\ AddRoutes(g, GET, comp)
    \/ \E path \in GroupPaths : ServeHTTP(GET, path)
    \/ Return
    \/ Finish

SpecGroups == Init /\ [][GroupStep]_vars

\* The continuation: middlewares on the root group, a route /users, and
\* requests whose handlers and middlewares call Next as they please.
ChainMethods == {GET, OPTIONS}

ChainPaths == { <<"/", "u", "s", "e", "r", "s">>, <<"/">> }

ChainStep ==
    \/ \E middlewares \in UseArgs : Use(1, middlewares)
    \/ \E method \in ChainMethods :
           Len(regs) < MaxChainRoutes
           /\ AddRoutes(1, method, <<"/", "u", "s", "e", "r", "s">>)
    \/ \E method \in ChainMethods, path \in ChainPaths :
           ServeHTTP(method, path)
    \/ Next
    \/ Return
    \/ Finish

SpecChain == Init /\ [][ChainStep]_vars

\* Parsing on its own: a string is parsed, its segments are joined again
\* with joinParts, and the joined string is parsed in turn.
ParseChars == {"/", "a", "b", ":", "*"}

ParseInputs == UNION { [1..n -> ParseChars] : n \in 0..MaxLen }

InitParse ==
    /\ nodes = <<>>
    /\ root = {}
    /\ handlers = {}
    /\ regs = <<>>
    /\ groups = <<[prefix |-> <<>>, middlewares |-> <<>>, parent |-> nil]>>
    /\ ctx = newContext(<<>>, <<>>)
    /\ pc = "parse"
    /\ stack = <<>>
    /\ invoked = <<>>
    /\ response = noResponse
    /\ route = noRoute
    /\ pin \in { <<p>> : p \in ParseInputs }
    /\ pout = <<>>
    /\ reqs = [r \in Requests |-> idleRequest]

\* A call of parsePattern on the latest string.
ParsePattern ==
    /\ pc = "parse"
    /\ pout' = Append(pout, parsePattern(pin[Len(pin)]))
    /\ pc' = "parsed"
    /\ UNCHANGED <<nodes, root, handlers, regs, groups, ctx, stack, invoked,
                   response, route, pin, reqs>>

\* A call of joinParts on the segments of the first string.
JoinParts ==
    /\ pc = "parsed"
    /\ Len(pin) = 1
    /\ IF joinPanics(pout[1])
       THEN pc' = "panic" /\ pin' = pin
       ELSE pc' = "parse" /\ pin' = Append(pin, joinParts(pout[1]))
    /\ UNCHANGED <<nodes, root, handlers, regs, groups, ctx, stack, invoked,
                   response, route, pout, reqs>>

ParseStep == ParsePattern \/ JoinParts

SpecParse == InitParse /\ [][ParseStep]_vars

----------------------------------------------------------------------------
(* Requests served concurrently: net/http calls Engine.ServeHTTP in one    *)
(* goroutine per connection.  Each step below is one statement, or one     *)
(* loop iteration, of one goroutine; the steps of the goroutines           *)
(* interleave.                                                             *)

\* Engine.ServeHTTP is entered for a request: var middlewares []HandlerFunc.
\* Registration is over once the server serves.
Accept(r, method, path) ==
    /\ pc \in {"setup", "ready"}
    /\ reqs[r].pc = "idle"
    /\ reqs' = [reqs EXCEPT ![r] =
                   [idleRequest EXCEPT
                       !.pc  = "assign",
                       !.ctx = [HTTPMethod |-> method,
                                RoutePath  |-> path,
                                Params     |-> {},
                                current    |-> -1,
                                middleware |-> <<>>]]]
    /\ pc' = "ready"
    /\ UNCHANGED <<nodes, root, handlers, regs, groups, ctx, stack, invoked,
                   response, route, pin, pout>>

\* One iteration of the loop over e.groups that writes what it has
\* collected into the group's own list.
AssignGroupShared(r) ==
    /\ reqs[r].pc = "assign"
    /\ reqs[r].k < Len(groups)
    /\ LET k  == reqs[r].k + 1
           ms == IF HasPrefix(reqs[r].ctx.RoutePath, groups[k].prefix)
                 THEN reqs[r].middlewares \o groups[k].middlewares
                 ELSE reqs[r].middlewares
       IN  /\ reqs' = [reqs EXCEPT ![r].k = k, ![r].middlewares = ms]
           /\ groups' = [groups EXCEPT ![k].middlewares = ms]
    /\ UNCHANGED <<nodes, root, handlers, regs, ctx, pc, stack, invoked,
                   response, route, pin, pout>>

\* One iteration of the loop of Engine.ServeHTTP over e.groups: the
\* middlewares of a group whose prefix the path has are appended to the
\* goroutine's own slice.
AssignGroup(r) ==
    /\ reqs[r].pc = "assign"
    /\ reqs[r].k < Len(groups)
    /\ LET k == reqs[r].k + 1
       IN  reqs' = [reqs EXCEPT
                       ![r].k = k,
                       ![r].middlewares =
                           IF HasPrefix(reqs[r].ctx.RoutePath,
                                        groups[k].prefix)
                           THEN @ \o groups[k].middlewares
                           ELSE @]
    /\ UNCHANGED <<nodes, root, handlers, regs, groups, ctx, pc, stack,
                   invoked, response, route, pin, pout>>

\* The loop is over: ctx := newContext(...); ctx.middleware = middlewares.
MakeContext(r) ==
    /\ reqs[r].pc = "assign"
    /\ reqs[r].k = Len(groups)
    /\ reqs' = [reqs EXCEPT
                   ![r].pc  = "handle",
                   ![r].ctx = [newContext(@.HTTPMethod, @.RoutePath)
                                  EXCEPT !.middleware = reqs[r].middlewares]]
    /\ UNCHANGED <<nodes, root, handlers, regs, groups, ctx, pc, stack,
                   invoked, response, route, pin, pout>>

\* router.handle for the request: getRoute, then the route handler is
\* called on the Context, or NOT FOUND is written.
Handle(r) ==
    /\ reqs[r].pc = "handle"
    /\ LET c   == reqs[r].ctx
           g   == getRoute(nodes, root, c.HTTPMethod, c.RoutePath)
           key == routeKey(c.HTTPMethod, nodes[g.n].pattern)
       IN  reqs' = [reqs EXCEPT
                       ![r].route = g,
                       ![r].ctx =
                           IF ~g.fault /\ g.n # nil
                           THEN [c EXCEPT !.Params = g.params] ELSE c,
                       ![r].invoked =
                           IF ~g.fault /\ g.n # nil /\ MapHas(handlers, key)
                           THEN <<invocation(MapGet(handlers, key),
                                             c.current)>>
                           ELSE <<>>,
                       ![r].pc =
                           IF g.fault THEN "panic"
                           ELSE IF g.n = nil THEN "done"
                           ELSE IF MapHas(handlers, key) THEN "running"
                           ELSE "panic"]
    /\ UNCHANGED <<nodes, root, handlers, regs, groups, ctx, pc, stack,
                   invoked, response, route, pin, pout>>

\* The HandlerFunc the request is executing calls Context.Next on the
\* request's Context.
CallNext(r) ==
    /\ reqs[r].pc = "running"
    /\ reqs[r].ctx.current < Len(reqs[r].ctx.middleware)
    /\ LET current == reqs[r].ctx.current + 1
       IN  reqs' = [reqs EXCEPT
                       ![r].ctx.current = current,
                       ![r].invoked =
                           IF current < Len(reqs[r].ctx.middleware)
                           THEN Append(@, invocation(
                                    reqs[r].ctx.middleware[current + 1],
                                    current))
                           ELSE @]
    /\ UNCHANGED <<nodes, root, handlers, regs, groups, ctx, pc, stack,
                   invoked, response, route, pin, pout>>

\* The HandlerFuncs of the request return, and with them router.handle and
\* Engine.ServeHTTP.
HandlerReturns(r) ==
    /\ reqs[r].pc = "running"
    /\ reqs' = [reqs EXCEPT ![r].pc = "done"]
    /\ UNCHANGED <<nodes, root, handlers, regs, groups, ctx, pc, stack,
                   invoked, response, route, pin, pout>>

ConcPrefix == <<"/", "a", "p", "i">>

ConcComps == { <<"/", "u", "s", "e", "r", "s">>, <<"/", ":", "i", "d">> }

ConcPaths ==
    { <<"/", "a", "p", "i", "/", "u", "s", "e", "r", "s">>,
      <<"/", "u", "s", "e", "r", "s">>,
      <<"/", "a", "p", "i">> }

ConcStep ==
    \/ Len(groups) = 1 /\ Group(1, ConcPrefix)
    \/ \E g \in 1..Len(groups) : Use(g, <<userMiddleware(g)>>)
    \/ \E g \in 1..Len(groups), comp \in ConcComps :
           regs = <<>> /\ AddRoutes(g, GET, comp)
    \/ \E r \in Requests, path \in ConcPaths : Accept(r, GET, path)
    \/ \E r \in Requests : AssignGroup(r)
    \/ \E r \in Requests : MakeContext(r)
    \/ \E r \in Requests : Handle(r)
    \/ \E r \in Requests : CallNext(r)
    \/ \E r \in Requests : HandlerReturns(r)

SpecConc == Init /\ [][ConcStep]_vars

----------------------------------------------------------------------------
(* Vocabulary of the claims.                                               *)

\* A request has been resolved and dispatched, and its context is in place.
Dispatched == pc \in {"running", "done", "panic"}

Segments(s) == parsePattern(s)
IsNamed(seg) == seg[1] = ":"
IsWildcard(seg) == seg[1] = "*"
IsStatic(seg) == ~IsNamed(seg) /\ ~IsWildcard(seg)
HasChar(s, ch) == \E k \in 1..Len(s) : s[k] = ch

\* The parts joined by a single "/", with no separator before the first or
\* after the last.
RECURSIVE SlashJoined(_)
SlashJoined(parts) ==
    IF Len(parts) = 1 THEN parts[1]
    ELSE parts[1] \o <<"/">> \o SlashJoined(Tail(parts))

\* Every registration made under the method is of this one pattern.
OnlyPattern(method, pattern) ==
    /\ \E k \in 1..Len(regs) :
           regs[k].method = method /\ regs[k].pattern = pattern
    /\ \A k \in 1..Len(regs) :
           regs[k].method = method => regs[k].pattern = pattern

\* The handler of the latest registration of (method, pattern).
LastHandler(method, pattern) ==
    LET ks == {k \in 1..Len(regs) :
                  regs[k].method = method /\ regs[k].pattern = pattern}
    IN  regs[CHOOSE k \in ks : \A j \in ks : j <= k].handler

\* The pattern has a named parameter before its last segment and no
\* wildcard, and the path has its number of segments and its static ones.
NamedInside(pattern, path) ==
    LET ps == Segments(pattern)
        qs == Segments(path)
    IN  /\ \E i \in 1..(Len(ps) - 1) : IsNamed(ps[i])
        /\ \A i \in 1..Len(ps) : ~IsWildcard(ps[i])
        /\ Len(qs) = Len(ps)
        /\ \A i \in 1..Len(ps) : IsStatic(ps[i]) => qs[i] = ps[i]

\* C1: once a pattern with a named parameter before its last segment is the
\* pattern registered under a method, a request of that method whose path
\* has the pattern's number of segments and its static segments resolves to
\* the pattern's node, runs the handler registered for it, and finds every
\* parameter bound to the path segment at its position.
C1_NamedInsideResolves ==
    \A k \in 1..Len(regs) :
        ( /\ Dispatched
          /\ regs[k].method = ctx.HTTPMethod
          /\ OnlyPattern(regs[k].method, regs[k].pattern)
          /\ NamedInside(regs[k].pattern, ctx.RoutePath) )
        => /\ route.n # nil
           /\ nodes[route.n].pattern = regs[k].pattern
           /\ invoked # <<>>
           /\ invoked[1].fn = LastHandler(regs[k].method, regs[k].pattern)
           /\ LET ps == Segments(regs[k].pattern)
                  qs == Segments(ctx.RoutePath)
              IN  \A i \in 1..Len(ps) :
                      IsNamed(ps[i]) => <<Tail(ps[i]), qs[i]>> \in ctx.Params

\* The pattern ends in a wildcard after static segments only, and the path,
\* free of "*", has those static segments and at least one more.
WildcardAfterStatic(pattern, path) ==
    LET ps == Segments(pattern)
        qs == Segments(path)
    IN  /\ ps # <<>>
        /\ IsWildcard(ps[Len(ps)])
        /\ \A i \in 1..(Len(ps) - 1) : IsStatic(ps[i])
        /\ ~HasChar(path, "*")
        /\ Len(qs) >= Len(ps)
        /\ \A i \in 1..(Len(ps) - 1) : qs[i] = ps[i]

\* The wildcard of the pattern is bound to the rest of the path, joined.
WildcardBound(pattern, path, params) ==
    LET ps == Segments(pattern)
        qs == Segments(path)
    IN  <<Tail(ps[Len(ps)]), SlashJoined(SubSeq(qs, Len(ps), Len(qs)))>>
            \in params

\* C2: once a pattern of static segments and a final wildcard *name is the
\* pattern registered under a method, a request of that method whose path is
\* free of "*" and made of the static segments and one or more further ones
\* resolves to the pattern, and name is bound to the remaining segments
\* joined by single "/", with no separator before or after; and whatever else
\* is registered, a request that resolves to a node storing such a pattern
\* finds name bound that way.
C2_WildcardBindsRest ==
    /\ \A k \in 1..Len(regs) :
        ( /\ Dispatched
          /\ regs[k].method = ctx.HTTPMethod
          /\ OnlyPattern(regs[k].method, regs[k].pattern)
          /\ WildcardAfterStatic(regs[k].pattern, ctx.RoutePath) )
        => /\ route.n # nil
           /\ ~route.fault
           /\ nodes[route.n].pattern = regs[k].pattern
           /\ WildcardBound(regs[k].pattern, ctx.RoutePath, ctx.Params)
           /\ Cardinality(ctx.Params) = 1
    /\ ( /\ Dispatched
         /\ route.n # nil
         /\ WildcardAfterStatic(nodes[route.n].pattern, ctx.RoutePath) )
       => /\ ~route.fault
          /\ WildcardBound(nodes[route.n].pattern, ctx.RoutePath, ctx.Params)

\* A request for /a//c/b/ has resolved to /a/*w, the only pattern of its
\* method, with w = c/b.
C2_Witness ==
    /\ Dispatched
    /\ OnlyPattern(ctx.HTTPMethod, <<"/", "a", "/", "*", "w">>)
    /\ ctx.RoutePath = <<"/", "a", "/", "/", "c", "/", "b", "/">>
    /\ route.n # nil
    /\ ctx.Params = {<< <<"w">>, <<"c", "/", "b">> >>}

\* The prefix is a textual prefix of the string.
IsTextualPrefix(prefix, s) == \E k \in 0..Len(s) : SubSeq(s, 1, k) = prefix

\* How many middlewares the groups created before group g, and matching the
\* path by prefix, carry together.
RECURSIVE MiddlewaresBefore(_, _)
MiddlewaresBefore(g, path) ==
    IF g = 1 THEN 0
    ELSE MiddlewaresBefore(g - 1, path)
         + (IF IsTextualPrefix(groups[g - 1].prefix, path)
            THEN Len(groups[g - 1].middlewares) ELSE 0)

\* The middleware at position k (0-based) of the request has been invoked
\* before the i-th invocation of the request.
InvokedBefore(k, i) ==
    \E j \in 1..(i - 1) : invoked[j] = invocation(ctx.middleware[k + 1], k)

\* C3: the route handler of a request runs only after every middleware of
\* the request's assigned sequence has been invoked, in order; and for an
\* OPTIONS request with CORSMiddleware in the sequence, which returns without
\* calling Next, the route handler does not run.
C3_HandlerGatedByChain ==
    \A i \in 1..Len(invoked) :
        invoked[i].fn.kind = "route"
        => /\ \A k \in 0..(Len(ctx.middleware) - 1) : InvokedBefore(k, i)
           /\ ~( /\ ctx.HTTPMethod = OPTIONS
                 /\ \E k \in 1..Len(ctx.middleware) :
                        ctx.middleware[k] = CORSMiddleware )

\* C4: the middleware sequence assigned to a request is the concatenation,
\* over the groups in creation order (the root group first), of the
\* middleware lists of exactly the groups whose prefix is a textual prefix
\* of the request path, each list in the order of its Use calls.
C4_AssignedSequence ==
    Dispatched =>
        /\ Len(ctx.middleware)
             = MiddlewaresBefore(Len(groups) + 1, ctx.RoutePath)
        /\ \A g \in 1..Len(groups) :
               IsTextualPrefix(groups[g].prefix, ctx.RoutePath)
               => \A k \in 1..Len(groups[g].middlewares) :
                      ctx.middleware[MiddlewaresBefore(g, ctx.RoutePath) + k]
                        = groups[g].middlewares[k]

\* A request for /api/v1/users with group /api made before its child
\* /api/v1, a middleware on each: that of /api comes first.
C4_Witness ==
    /\ Dispatched
    /\ Len(groups) = 3
    /\ groups[2].prefix = <<"/", "a", "p", "i">>
    /\ groups[3].prefix = <<"/", "a", "p", "i", "/", "v", "1">>
    /\ groups[2].middlewares = <<userMiddleware(1)>>
    /\ groups[3].middlewares = <<CORSMiddleware>>
    /\ ctx.RoutePath
         = <<"/", "a", "p", "i", "/", "v", "1", "/", "u", "s", "e", "r", "s">>
    /\ ctx.middleware = <<userMiddleware(1), CORSMiddleware>>

\* The pattern matches the path: segment by segment, a named parameter
\* standing for one segment and a final wildcard for one or more.
Matches(pattern, path) ==
    LET ps == Segments(pattern)
        qs == Segments(path)
    IN  /\ IF ps # <<>> /\ IsWildcard(ps[Len(ps)])
           THEN Len(qs) >= Len(ps)
           ELSE Len(qs) = Len(ps)
        /\ \A i \in 1..Len(ps) : IsStatic(ps[i]) => qs[i] = ps[i]

\* C5: a request of a method with no registered route, or one that no
\* pattern registered under its method matches, is a miss (no node, no
\* parameters, no panic), answered 404 NOT FOUND without any handler run.
C5_UnmatchedIsMiss ==
    ( /\ Dispatched
      /\ \A k \in 1..Len(regs) :
             regs[k].method = ctx.HTTPMethod
             => ~Matches(regs[k].pattern, ctx.RoutePath) )
    => /\ route.n = nil
       /\ route.isNil
       /\ ~route.fault
       /\ pc = "done"
       /\ response = [code |-> 404, body |-> "NOT FOUND"]
       /\ invoked = <<>>

\* C6: a request resolves to a pattern without wildcard segment only if its
\* path has exactly as many segments as the pattern.
C6_NamedBindsOneSegment ==
    ( /\ Dispatched
      /\ route.n # nil
      /\ \A i \in 1..Len(Segments(nodes[route.n].pattern)) :
             ~IsWildcard(Segments(nodes[route.n].pattern)[i]) )
    => Len(Segments(ctx.RoutePath)) = Len(Segments(nodes[route.n].pattern))

\* C7: for a string without "*", no parsed segment is empty or holds a "/",
\* and when there is a segment, parsing the segments joined by "/" gives the
\* same segments again.
C7_SegmentingIdempotent ==
    (pout # <<>> /\ ~HasChar(pin[1], "*"))
    => /\ \A i \in 1..Len(pout[1]) :
              pout[1][i] # <<>> /\ ~HasChar(pout[1][i], "/")
       /\ Len(pin) = 2 => pin[2] = SlashJoined(pout[1])
       /\ Len(pout) = 2 => pout[2] = pout[1]

\* /a//b parses to a, b; joined they are a/b, which parses to a, b.
C7_Witness ==
    /\ pin = << <<"/", "a", "/", "/", "b">>, <<"a", "/", "b">> >>
    /\ pout = << << <<"a">>, <<"b">> >>, << <<"a">>, <<"b">> >> >>

\* The step is a call of Next by the HandlerFunc on top of the stack.
NextCalled ==
    /\ Len(stack') >= Len(stack)
    /\ stack'[Len(stack)].calls = stack[Len(stack)].calls + 1

\* The middlewares the request has invoked are at increasing positions, each
\* the middleware of its position, none beyond the cursor.
InvokedInOrder ==
    /\ ctx.current >= -1
    /\ \A i \in 1..Len(invoked) :
           /\ invoked[i].at <= ctx.current
           /\ i > 1 => /\ invoked[i].at > invoked[i - 1].at
                       /\ invoked[i].at < Len(ctx.middleware)
                       /\ invoked[i].fn = ctx.middleware[invoked[i].at + 1]
    /\ ctx.middleware = <<>> => Len(invoked) <= 1

\* C8: while a request runs, a call of Next moves the cursor up by exactly
\* one and invokes the middleware at the new position if and only if that
\* position is within the assigned sequence; nothing else moves the cursor
\* or invokes a middleware (a return in particular); so the cursor never
\* goes down, the positions invoked increase, and with an empty sequence
\* no call of Next invokes anything.
C8_NextAdvancesByOne ==
    [][ /\ pc = "running" =>
            IF NextCalled
            THEN /\ ctx'.current = ctx.current + 1
                 /\ invoked' =
                      IF ctx'.current < Len(ctx.middleware)
                      THEN Append(invoked,
                                  invocation(ctx.middleware[ctx'.current + 1],
                                             ctx'.current))
                      ELSE invoked
            ELSE ctx' = ctx /\ invoked' = invoked
        /\ InvokedInOrder' ]_vars

\* Two middlewares assigned, both invoked, and a further call of Next has
\* moved the cursor past the end.
C8_Witness ==
    /\ pc = "running"
    /\ Len(ctx.middleware) = 2
    /\ ctx.current = 2
    /\ Len(invoked) = 3

\* C9: a request resolves only to a pattern whose static segments are the
\* segments of the path at their positions.
C9_ResolutionSound ==
    (Dispatched /\ route.n # nil)
    => LET ps == Segments(nodes[route.n].pattern)
           qs == Segments(ctx.RoutePath)
       IN  \A i \in 1..Len(ps) :
               IsStatic(ps[i]) => i <= Len(qs) /\ qs[i] = ps[i]

\* C10: with /a/:x and then /a/b registered under GET (as /users/:id and
\* /users/admin), GET /a/b resolves to /a/:x with x = b and runs the handler
\* of /a/:x.
C10_NamedShadowsStatic ==
    ( /\ Dispatched
      /\ Len(regs) = 2
      /\ regs[1].method = GET /\ regs[1].pattern = <<"/", "a", "/", ":", "x">>
      /\ regs[2].method = GET /\ regs[2].pattern = <<"/", "a", "/", "b">>
      /\ ctx.HTTPMethod = GET
      /\ ctx.RoutePath = <<"/", "a", "/", "b">> )
    => /\ route.n # nil
       /\ nodes[route.n].pattern = regs[1].pattern
       /\ invoked # <<>> /\ invoked[1].fn = regs[1].handler
       /\ << <<"x">>, <<"b">> >> \in ctx.Params

\* The nodes of the tree under node n.
RECURSIVE TreeNodes(_, _)
TreeNodes(ns, n) ==
    {n} \cup UNION { TreeNodes(ns, ns[n].children[k]) :
                        k \in 1..Len(ns[n].children) }

\* The nodes of the tree of a method with a root.
MethodNodes(method) == TreeNodes(nodes, MapGet(root, method))

\* C11: every registered (method, pattern) whose segment sequence differs
\* from that of every other registration of the method is the stored
\* pattern of a node of the method's tree: no later registration has taken
\* its node over.
C11_NoTakeover ==
    \A k \in 1..Len(regs) :
        (\A j \in 1..Len(regs) :
            (j # k /\ regs[j].method = regs[k].method)
            => Segments(regs[j].pattern) # Segments(regs[k].pattern))
        => \E n \in MethodNodes(regs[k].method) :
               nodes[n].pattern = regs[k].pattern

\* C12: the route handler of a request that resolves is invoked by the
\* dispatch itself, first and once, with the cursor at -1 and no middleware
\* invoked; a middleware is invoked only once the route handler has called
\* Next.
C12_HandlerInvokedDirectly ==
    /\ (Dispatched /\ route.n # nil /\ pc # "panic")
       => /\ invoked # <<>>
          /\ invoked[1] = invocation(LastHandler(ctx.HTTPMethod,
                                                 nodes[route.n].pattern), -1)
          /\ \A i \in 2..Len(invoked) : invoked[i].fn.kind # "route"
    /\ pc = "running"
       => /\ stack[1].fn = invoked[1].fn
          /\ stack[1].calls = 0 => (ctx.current = -1 /\ Len(invoked) = 1)
          /\ Len(invoked) > 1 => stack[1].calls >= 1

\* The route handler has started with two middlewares assigned and none
\* invoked.
C12_Witness ==
    /\ pc = "running"
    /\ Len(ctx.middleware) = 2
    /\ Len(stack) = 1
    /\ stack[1].calls = 0
    /\ ctx.current = -1
    /\ Len(invoked) = 1

\* The characters of s before its first "/", or all of s.
RECURSIVE UpToSlash(_)
UpToSlash(s) ==
    IF s = <<>> \/ Head(s) = "/" THEN <<>>
    ELSE <<Head(s)>> \o UpToSlash(Tail(s))

\* C13: no parsed segment holds a "/", and a wildcard segment is the text
\* from its "*" to the next "/" alone, whatever follows being dropped.
C13_WildcardDropsRest ==
    pout # <<>>
    => \A i \in 1..Len(pout[1]) :
           /\ ~HasChar(pout[1][i], "/")
           /\ IsWildcard(pout[1][i]) => pout[1][i] = UpToSlash(pout[1][i])

\* The group g and its ancestors, up to the root group.
RECURSIVE WithAncestors(_)
WithAncestors(g) ==
    IF g = nil THEN {} ELSE {g} \cup WithAncestors(groups[g].parent)

\* The pattern is one that a registration through group g composes.
ComposedBy(g, pattern) ==
    \E comp \in GroupComps : pattern = groups[g].prefix \o comp

\* C14: a request that resolves to a route registered through a group has
\* every middleware of that group and of its ancestors in its assigned
\* sequence.
C14_GroupMiddlewaresCover ==
    (Dispatched /\ route.n # nil)
    => \A g \in 1..Len(groups) :
           ComposedBy(g, nodes[route.n].pattern)
           => \A a \in WithAncestors(g) :
                  \A k \in 1..Len(groups[a].middlewares) :
                      \E i \in 1..Len(ctx.middleware) :
                          ctx.middleware[i] = groups[a].middlewares[k]

\* The number of steps from node from down to node n of its tree.
RECURSIVE Height(_, _, _)
Height(ns, from, n) ==
    IF from = n THEN 0
    ELSE 1 + Height(ns,
                    CHOOSE c \in { ns[from].children[k] :
                                     k \in 1..Len(ns[from].children) } :
                        n \in TreeNodes(ns, c),
                    n)

\* C15: resolution never faults: the node returned lies as deep in its
\* method's tree as its stored pattern has segments, and no deeper than the
\* request path has segments, so that every segment the parameter loop
\* reads exists and a wildcard is joined from one segment at least.
C15_ResolutionNeverFaults ==
    Dispatched
    => /\ ~route.fault
       /\ route.n # nil
          => LET parts       == parsePattern(nodes[route.n].pattern)
                 searchParts == parsePattern(ctx.RoutePath)
                 height      == Height(nodes, MapGet(root, ctx.HTTPMethod),
                                       route.n)
             IN  /\ route.n \in MethodNodes(ctx.HTTPMethod)
                 /\ height = Len(parts)
                 /\ height <= Len(searchParts)
                 /\ \A i \in 1..Len(parts) :
                        IsWildcard(parts[i])
                        => ~joinPanics(Slice(searchParts, i - 1,
                                             Len(searchParts)))

\* A path of three segments has resolved to a pattern of two, a named
\* parameter its last, and a path of two to a wildcard pattern.
C15_Witness ==
    /\ Dispatched
    /\ route.n # nil
    /\ ~route.fault
    /\ \/ /\ nodes[route.n].pattern = <<"/", "a", "/", ":", "x">>
          /\ ctx.RoutePath = <<"/", "a", "/", "c", "/", "b">>
          /\ ctx.Params = {<< <<"x">>, <<"c">> >>}
       \/ /\ nodes[route.n].pattern = <<"/", "a", "/", "*", "w">>
          /\ ctx.RoutePath = <<"/", "a", "/", "c">>
          /\ ctx.Params = {<< <<"w">>, <<"c">> >>}

\* C16: every node of a method's tree that stores a pattern has a handler
\* under the key method + "_" + pattern, and the dispatch of a request that
\* resolves finds a handler to invoke.
C16_StoredPatternHasHandler ==
    /\ \A mr \in root :
           \A n \in TreeNodes(nodes, mr[2]) :
               nodes[n].pattern # <<>>
               => MapHas(handlers, routeKey(mr[1], nodes[n].pattern))
    /\ (Dispatched /\ route.n # nil /\ ~route.fault)
       => /\ pc # "panic"
          /\ invoked # <<>>
          /\ <<routeKey(ctx.HTTPMethod, nodes[route.n].pattern),
               invoked[1].fn>> \in handlers

\* Three routes under two methods are registered, and a request has
\* resolved to the second route of its method.
C16_Witness ==
    /\ Len(regs) = 3
    /\ Cardinality(root) = 2
    /\ Cardinality(handlers) = 3
    /\ pc = "running"
    /\ route.n # nil
    /\ \E k \in 2..3 : stack[1].fn = routeHandler(k)

\* A node of the method's tree stores the pattern.
Stored(method, pattern) ==
    /\ MapHas(root, method)
    /\ \E n \in MethodNodes(method) : nodes[n].pattern = pattern

\* The step registers a (method, pattern) that the method's tree stores.
Reregisters ==
    /\ Len(regs') = Len(regs) + 1
    /\ Stored(regs'[Len(regs')].method, regs'[Len(regs')].pattern)

\* C17: registering a (method, pattern) that the method's tree stores
\* leaves the trees and the method-to-root map as they are, fails nothing,
\* and changes the handler mapping at the key of the pair alone, to the new
\* handler; a request that then resolves to the pattern is dispatched to
\* the handler of the last registration.
C17_ReregisterLastWins ==
    [][/\ Reregisters
          => LET last == regs'[Len(regs')]
                 key  == routeKey(last.method, last.pattern)
             IN  /\ nodes' = nodes
                 /\ root' = root
                 /\ pc' = pc
                 /\ <<key, last.handler>> \in handlers'
                 /\ \A kv \in handlers \cup handlers' :
                        kv[1] # key => (kv \in handlers /\ kv \in handlers')
                 /\ Cardinality(handlers') = Cardinality(handlers)
       /\ (pc' = "running" /\ pc # "running")
          => stack'[1].fn = LastHandler(ctx'.HTTPMethod,
                                        nodes'[route'.n].pattern)]_vars

\* The same pattern was registered twice under a method, and a request
\* has resolved to it: the second handler runs.
C17_Witness ==
    /\ Len(regs) >= 2
    /\ regs[1].method = regs[2].method
    /\ regs[1].pattern = regs[2].pattern
    /\ pc = "running"
    /\ route.n # nil
    /\ nodes[route.n].pattern = regs[2].pattern
    /\ ctx.HTTPMethod = regs[2].method
    /\ stack[1].fn = routeHandler(2)
    /\ invoked = <<invocation(routeHandler(2), -1)>>

\* The request of goroutine r has what serving it alone on the registry
\* and the group table yields: once its Context is made, the middleware
\* sequence; once it is resolved, the node, the parameters and the route
\* handler.
AsAlone(r) ==
    LET q == reqs[r]
        g == getRoute(nodes, root, q.ctx.HTTPMethod, q.ctx.RoutePath)
    IN  /\ q.pc \in {"handle", "running", "done", "panic"}
           => q.ctx.middleware = assignMiddlewares(groups, q.ctx.RoutePath)
        /\ q.pc \in {"running", "done", "panic"}
           => /\ q.route = g
              /\ g.n # nil => q.ctx.Params = g.params
              /\ g.n = nil => q.ctx.Params = {}
        /\ q.pc = "running"
           => q.invoked[1].fn
                = MapGet(handlers, routeKey(q.ctx.HTTPMethod,
                                            nodes[g.n].pattern))

\* C18: a step of serving a request leaves the trie nodes, the
\* method-to-root map, the handler mapping and the group table with its
\* middleware lists as they are, and writes the state of its own request
\* alone; in every interleaving of two requests each has the middleware
\* sequence, the resolution and the parameters of the request served alone.
C18_ServingWritesNoSharedState ==
    /\ [][reqs' # reqs
            => /\ UNCHANGED <<nodes, root, handlers, groups>>
               /\ \E r \in Requests :
                      \A o \in Requests \ {r} : reqs'[o] = reqs[o]]_vars
    /\ [](\A r \in Requests : AsAlone(r))

\* One request is running its chain, its cursor advanced and a parameter
\* bound, while the other is inside the loop over the groups with a
\* middleware collected.
C18_Witness ==
    \E r \in Requests, o \in Requests :
        /\ reqs[r].pc = "running"
        /\ reqs[r].ctx.current = 0
        /\ reqs[r].ctx.Params # {}
        /\ Len(reqs[r].invoked) = 2
        /\ reqs[o].pc = "assign"
        /\ reqs[o].k = 1
        /\ reqs[o].middlewares # <<>>
        /\ Len(groups) = 2

====
